---- MODULE Spec2Model ----
(***************************************************************************)
(* Model of the clapper command-line parser (clapper.go): the schema       *)
(* registry (Register, AddArg, AddFlag and the WithValid variants) and     *)
(* Registry.Parse.  Go strings are modelled as sequences of one-character  *)
(* strings so that prefix tests, trimming and splitting are computed the   *)
(* way the strings package computes them.                                  *)
(***************************************************************************)
EXTENDS Integers, Sequences, FiniteSets, TLC

\* registry: the Registry map; last: the last call made on it with its
\* return values; calls: the local variables of the Parse calls that run
\* side by side (empty in the hosts that make one call at a time)
VARIABLES registry, last, calls

vars == <<registry, last, calls>>

(***************************************************************************)
(* strings package                                                         *)
(***************************************************************************)

\* strings.HasPrefix(s, prefix)
HasPrefix(s, prefix) ==
    /\ Len(s) >= Len(prefix)
    /\ SubSeq(s, 1, Len(prefix)) = prefix

\* strings.HasSuffix(s, suffix)
HasSuffix(s, suffix) ==
    /\ Len(s) >= Len(suffix)
    /\ SubSeq(s, Len(s) - Len(suffix) + 1, Len(s)) = suffix

\* the set of characters of a cutset string
CharsOf(cutset) == {cutset[i] : i \in 1..Len(cutset)}

RECURSIVE TrimLeft(_, _)
\* strings.TrimLeft(s, cutset): drops every leading character that is in cutset
TrimLeft(s, cutset) ==
    IF Len(s) > 0 /\ s[1] \in CharsOf(cutset)
    THEN TrimLeft(Tail(s), cutset)
    ELSE s

RECURSIVE TrimRight(_, _)
\* strings.TrimRight(s, cutset): drops every trailing character that is in cutset
TrimRight(s, cutset) ==
    IF Len(s) > 0 /\ s[Len(s)] \in CharsOf(cutset)
    THEN TrimRight(SubSeq(s, 1, Len(s) - 1), cutset)
    ELSE s

\* strings.Trim(s, cutset)
Trim(s, cutset) == TrimRight(TrimLeft(s, cutset), cutset)

RECURSIVE Split(_, _)
\* strings.Split(s, sep) for a one-character separator
Split(s, sep) ==
    IF \E i \in 1..Len(s) : s[i] = sep
    THEN LET i == CHOOSE j \in 1..Len(s) :
                     /\ s[j] = sep
                     /\ \A k \in 1..(j - 1) : s[k] # sep
         IN  <<SubSeq(s, 1, i - 1)>> \o Split(SubSeq(s, i + 1, Len(s)), sep)
    ELSE <<s>>

\* strings.ReplaceAll(s, old, "") for a one-character old
ReplaceAll(s, old) == SelectSeq(s, LAMBDA c : c # old)

(***************************************************************************)
(* Go maps as functions                                                    *)
(***************************************************************************)

EmptyMap == <<>>

Has(m, k) == k \in DOMAIN m

Put(m, k, v) == [x \in (DOMAIN m) \cup {k} |-> IF x = k THEN v ELSE m[x]]

(***************************************************************************)
(* private functions of clapper.go                                         *)
(***************************************************************************)

isFlag(value) == Len(value) >= 2 /\ HasPrefix(value, <<"-">>)

isShortFlag(value) ==
    isFlag(value) /\ Len(value) = 2 /\ ~HasPrefix(value, <<"-", "-">>)

\* (bool, string) result of isInvertedFlag
isInvertedFlag(value) ==
    IF isFlag(value) /\ HasPrefix(value, <<"-", "-", "n", "o", "-">>)
    THEN [ok |-> TRUE, name |-> TrimLeft(value, <<"-", "-", "n", "o", "-">>)]
    ELSE [ok |-> FALSE, name |-> TrimLeft(value, <<"-", "-">>)]

isUnsupportedFlag(value) ==
    IF Len(value) >= 2
    THEN IF Len(value) = 2
         THEN ~HasPrefix(value, <<"-">>) \/ HasPrefix(value, <<"-", "-">>)
         ELSE ~HasPrefix(value, <<"-", "-">>) \/ HasPrefix(value, <<"-", "-", "-">>)
    ELSE FALSE

\* (bool, string) result of isVariadicArgument
isVariadicArgument(value) ==
    IF ~isFlag(value) /\ HasSuffix(value, <<".", ".", ".">>)
    THEN [ok |-> TRUE, name |-> TrimRight(value, <<".", ".", ".">>)]
    ELSE [ok |-> FALSE, name |-> <<>>]

\* isRootCommand with the lookup of the first value left out
isRootCommand_ArgsWin(values, reg) ==
    IF ~Has(reg, <<>>)
    THEN FALSE
    ELSE IF Len(values) = 0 \/ isFlag(values[1])
         THEN TRUE
         ELSE Len(reg[<<>>].ArgNames) > 0

\* isRootCommand with the test of the root command's arguments left out
isRootCommand_NoArgsCheck(values, reg) ==
    IF ~Has(reg, <<>>)
    THEN FALSE
    ELSE IF Len(values) = 0 \/ isFlag(values[1])
         THEN TRUE
         ELSE ~Has(reg, values[1])

\* isRootCommand with the isFlag test of the first value left out
isRootCommand_NoFlagCheck(values, reg) ==
    IF ~Has(reg, <<>>)
    THEN FALSE
    ELSE IF Len(values) = 0
         THEN TRUE
         ELSE Len(reg[<<>>].ArgNames) > 0 /\ ~Has(reg, values[1])

isRootCommand(values, reg) ==
    IF ~Has(reg, <<>>)
    THEN FALSE
    ELSE IF Len(values) = 0 \/ isFlag(values[1])
         THEN TRUE
         ELSE Len(reg[<<>>].ArgNames) > 0 /\ ~Has(reg, values[1])

\* (v, newSlice) result of nextValue
nextValue(slice) ==
    IF Len(slice) = 0
    THEN [v |-> <<>>, newSlice |-> <<>>]
    ELSE [v |-> slice[1], newSlice |-> Tail(slice)]

RECURSIVE formatCommandValues_SplitAll(_)
\* the formatting with the values that are not flags split by = as well
formatCommandValues_SplitAll(values) ==
    IF Len(values) = 0
    THEN <<>>
    ELSE LET value == Head(values)
             parts == SelectSeq(Split(value, "="),
                                LAMBDA part : Trim(part, <<" ">>) # <<>>)
         IN  parts \o formatCommandValues_SplitAll(Tail(values))

RECURSIVE formatCommandValues(_)
formatCommandValues(values) ==
    IF Len(values) = 0
    THEN <<>>
    ELSE LET value == Head(values)
             parts == SelectSeq(Split(value, "="),
                                LAMBDA part : Trim(part, <<" ">>) # <<>>)
         IN  (IF isFlag(value) THEN parts ELSE <<value>>)
                 \o formatCommandValues(Tail(values))

\* strings.Trim(value, ""): the cutset is empty
trimWhitespaces(value) == Trim(value, <<>>)

removeWhitespaces(value) == ReplaceAll(value, " ")

(***************************************************************************)
(* schema types and their methods                                          *)
(***************************************************************************)

\* FlagCommand{Name, ShortName, IsBoolean, IsInverted, DefaultValue}; the
\* ValidVals map is nil on construction, modelled as the empty set, and the
\* Value field is left at its zero value
FlagCommand(name, shortName, isBool, isInvert, defaultValue) ==
    [Name |-> name, ShortName |-> shortName, IsBoolean |-> isBool,
     IsInverted |-> isInvert, DefaultValue |-> defaultValue, Value |-> <<>>,
     ValidVals |-> {}]

\* ArgCommand{Name, DefaultValue, IsVariadic}, with ValidVals and Value as
\* in FlagCommand
ArgCommand(name, defaultValue, isVariadic) ==
    [Name |-> name, IsVariadic |-> isVariadic, DefaultValue |-> defaultValue,
     Value |-> <<>>, ValidVals |-> {}]

\* FlagCommand.SetValidVals / ArgCommand.SetValidVals: nil for an empty list,
\* otherwise the key set of the new map
SetValidVals(def, validVals) ==
    [def EXCEPT !.ValidVals = {validVals[i] : i \in 1..Len(validVals)}]

\* FlagCommand.Validate / ArgCommand.Validate
Validate(def, v) ==
    IF Cardinality(def.ValidVals) > 0 THEN v \in def.ValidVals ELSE TRUE

\* FlagCommand.Store
FlagStore(f, v) == [Name |-> f.Name, IsBoolean |-> f.IsBoolean, Value |-> v]

\* StoreDefault leaving the Value of the new Flag at its zero value
FlagStoreDefault_NoValue(f) ==
    [Name |-> f.Name, IsBoolean |-> f.IsBoolean, Value |-> <<>>]

\* FlagCommand.StoreDefault
FlagStoreDefault(f) ==
    [Name |-> f.Name, IsBoolean |-> f.IsBoolean, Value |-> f.DefaultValue]

\* ArgCommand.StoreDefault
ArgStoreDefault(a) ==
    [Name |-> a.Name, IsVariadic |-> a.IsVariadic, Value |-> a.DefaultValue]

\* the CommandConfig literal built by Register
CommandConfig(commandName) ==
    [Name |-> commandName, Flags |-> EmptyMap, flagsShort |-> EmptyMap,
     Args |-> EmptyMap, ArgNames |-> <<>>]

(***************************************************************************)
(* registration: each operator yields the registry after the call (reg),   *)
(* the key of the returned object (key) and the second return value        *)
(***************************************************************************)

\* Registry.Register
Register(reg, name) ==
    LET commandName == removeWhitespaces(name)
    IN  IF Has(reg, commandName)
        THEN [reg |-> reg, key |-> commandName, exist |-> TRUE]
        ELSE [reg |-> Put(reg, commandName, CommandConfig(commandName)),
              key |-> commandName, exist |-> FALSE]

\* CommandConfig.AddArg on the command stored under cmd
AddArg(reg, cmd, name, defaultValue) ==
    LET commandConfig == reg[cmd]
        name0         == removeWhitespaces(name)
        _defaultValue == trimWhitespaces(defaultValue)
        variadic      == isVariadicArgument(name0)
        _name         == IF variadic.ok THEN variadic.name ELSE name0
        _isVariadic   == variadic.ok
    IN  IF Has(commandConfig.Args, _name)
        THEN [reg |-> reg, key |-> _name, exist |-> TRUE]
        ELSE [reg |-> [reg EXCEPT ![cmd] =
                         [commandConfig EXCEPT
                            !.Args = Put(@, _name,
                                         ArgCommand(_name, _defaultValue, _isVariadic)),
                            !.ArgNames = Append(@, _name)]],
              key |-> _name, exist |-> FALSE]

\* CommandConfig.AddArgWithValid
AddArgWithValid(reg, cmd, name, defaultValue, validVals) ==
    LET r == AddArg(reg, cmd, name, defaultValue)
    IN  [r EXCEPT !.reg = [r.reg EXCEPT ![cmd].Args[r.key] =
                                 SetValidVals(@, validVals)]]

\* AddFlag leaving an inverted flag the short name it was given
AddFlag_GivenShortName(reg, cmd, name, shortName, isBool, defaultValue) ==
    LET commandConfig == reg[cmd]
        name0         == removeWhitespaces(name)
        shortName0    == removeWhitespaces(shortName)
        defaultValue0 == trimWhitespaces(defaultValue)
        shortName1    == IF shortName0 # <<>> THEN SubSeq(shortName0, 1, 1)
                                              ELSE shortName0
        inverted      == isBool /\ HasPrefix(name, <<"n", "o", "-">>)
        _isInvert     == inverted
        _name         == IF inverted THEN TrimLeft(name, <<"n", "o", "-">>) ELSE name0
        _defaultValue == IF isBool
                         THEN (IF inverted THEN <<"t", "r", "u", "e">>
                                           ELSE <<"f", "a", "l", "s", "e">>)
                         ELSE defaultValue0
        _shortName    == shortName1
    IN  IF Has(commandConfig.Flags, _name)
        THEN [reg |-> reg, key |-> _name, exist |-> TRUE]
        ELSE [reg |-> [reg EXCEPT ![cmd] =
                         [commandConfig EXCEPT
                            !.Flags = Put(@, _name,
                                          FlagCommand(_name, _shortName, isBool,
                                                      _isInvert, _defaultValue)),
                            !.flagsShort = IF Len(_shortName) > 0
                                           THEN Put(@, _shortName, _name)
                                           ELSE @]],
              key |-> _name, exist |-> FALSE]

\* AddFlag writing the alias entry from the arguments as given, before the
\* no- prefix is looked at
AddFlag_AliasOfGivenName(reg, cmd, name, shortName, isBool, defaultValue) ==
    LET commandConfig == reg[cmd]
        name0         == removeWhitespaces(name)
        shortName0    == removeWhitespaces(shortName)
        defaultValue0 == trimWhitespaces(defaultValue)
        shortName1    == IF shortName0 # <<>> THEN SubSeq(shortName0, 1, 1)
                                              ELSE shortName0
        inverted      == isBool /\ HasPrefix(name, <<"n", "o", "-">>)
        _isInvert     == inverted
        _name         == IF inverted THEN TrimLeft(name, <<"n", "o", "-">>) ELSE name0
        _defaultValue == IF isBool
                         THEN (IF inverted THEN <<"t", "r", "u", "e">>
                                           ELSE <<"f", "a", "l", "s", "e">>)
                         ELSE defaultValue0
        _shortName    == IF inverted THEN <<>> ELSE shortName1
    IN  IF Has(commandConfig.Flags, _name)
        THEN [reg |-> reg, key |-> _name, exist |-> TRUE]
        ELSE [reg |-> [reg EXCEPT ![cmd] =
                         [commandConfig EXCEPT
                            !.Flags = Put(@, _name,
                                          FlagCommand(_name, _shortName, isBool,
                                                      _isInvert, _defaultValue)),
                            !.flagsShort = IF Len(shortName1) > 0
                                           THEN Put(@, shortName1, name0)
                                           ELSE @]],
              key |-> _name, exist |-> FALSE]

\* CommandConfig.AddFlag on the command stored under cmd
AddFlag(reg, cmd, name, shortName, isBool, defaultValue) ==
    LET commandConfig == reg[cmd]
        name0         == removeWhitespaces(name)
        shortName0    == removeWhitespaces(shortName)
        defaultValue0 == trimWhitespaces(defaultValue)
        shortName1    == IF shortName0 # <<>> THEN SubSeq(shortName0, 1, 1)
                                              ELSE shortName0
        inverted      == isBool /\ HasPrefix(name, <<"n", "o", "-">>)
        _isInvert     == inverted
        _name         == IF inverted THEN TrimLeft(name, <<"n", "o", "-">>) ELSE name0
        _defaultValue == IF isBool
                         THEN (IF inverted THEN <<"t", "r", "u", "e">>
                                           ELSE <<"f", "a", "l", "s", "e">>)
                         ELSE defaultValue0
        _shortName    == IF inverted THEN <<>> ELSE shortName1
    IN  IF Has(commandConfig.Flags, _name)
        THEN [reg |-> reg, key |-> _name, exist |-> TRUE]
        ELSE [reg |-> [reg EXCEPT ![cmd] =
                         [commandConfig EXCEPT
                            !.Flags = Put(@, _name,
                                          FlagCommand(_name, _shortName, isBool,
                                                      _isInvert, _defaultValue)),
                            !.flagsShort = IF Len(_shortName) > 0
                                           THEN Put(@, _shortName, _name)
                                           ELSE @]],
              key |-> _name, exist |-> FALSE]

\* CommandConfig.AddFlagWithValid
AddFlagWithValid(reg, cmd, name, shortName, isBool, defaultValue, validVals) ==
    LET r == AddFlag(reg, cmd, name, shortName, isBool, defaultValue)
    IN  [r EXCEPT !.reg = [r.reg EXCEPT ![cmd].Flags[r.key] =
                                 SetValidVals(@, validVals)]]

(***************************************************************************)
(* Registry.Parse                                                          *)
(***************************************************************************)

\* error values; Nil is the nil error
Nil == [type |-> "nil", Name |-> <<>>, Value |-> <<>>]

ErrorUnknownCommand(name) ==
    [type |-> "ErrorUnknownCommand", Name |-> name, Value |-> <<>>]

ErrorUnknownFlag(name) ==
    [type |-> "ErrorUnknownFlag", Name |-> name, Value |-> <<>>]

ErrorUnsupportedFlag(name) ==
    [type |-> "ErrorUnsupportedFlag", Name |-> name, Value |-> <<>>]

ErrorUnsupportedValue(name, value) ==
    [type |-> "ErrorUnsupportedValue", Name |-> name, Value |-> value]

\* the nil *CommandParsed
NilParsed == [nil |-> TRUE]

\* CommandParsed{Name, Flags, Args}
CommandParsed(name, flags, args) ==
    [nil |-> FALSE, Name |-> name, Flags |-> flags, Args |-> args]

\* command selection: the values of commandName and valuesToProcess after
\* the isRootCommand test
selectCommand(values, reg) ==
    IF isRootCommand(values, reg)
    THEN [commandName |-> <<>>, valuesToProcess |-> values]
    ELSE [commandName |-> nextValue(values).v,
          valuesToProcess |-> nextValue(values).newSlice]

\* the invalid-flag-structure loop looking at the first value only
unsupportedFlags_FirstOnly(valuesToProcess) ==
    SelectSeq(IF Len(valuesToProcess) = 0 THEN <<>> ELSE <<valuesToProcess[1]>>,
              LAMBDA val : isFlag(val) /\ isUnsupportedFlag(val))

\* the values of the stream that the invalid-flag-structure loop rejects
unsupportedFlags(valuesToProcess) ==
    SelectSeq(valuesToProcess, LAMBDA val : isFlag(val) /\ isUnsupportedFlag(val))

\* flag lookup of the resolver: the key of the flag definition a flag token
\* resolves to (found), or no definition
lookupFlag(commandConfig, value) ==
    LET name == TrimLeft(value, <<"-">>)
        inv  == isInvertedFlag(value)
    IN  IF isShortFlag(value)
        THEN IF Has(commandConfig.flagsShort, name)
             THEN [found |-> TRUE, key |-> commandConfig.flagsShort[name]]
             ELSE [found |-> FALSE, key |-> <<>>]
        ELSE IF inv.ok
             THEN [found |-> Has(commandConfig.Flags, inv.name), key |-> inv.name]
             ELSE [found |-> Has(commandConfig.Flags, inv.name)
                               /\ ~commandConfig.Flags[inv.name].IsInverted,
                   key |-> inv.name]

\* the flag branch with a boolean flag taking the next value off the stream
processFlag_BoolConsumes(commandConfig, value, valuesToProcess, store) ==
    LET l    == lookupFlag(commandConfig, value)
        flag == commandConfig.Flags[l.key]
        nv   == nextValue(valuesToProcess)
        take == Len(nv.v) # 0 /\ ~isFlag(nv.v)
    IN  IF ~l.found
        THEN [store |-> store, valuesToProcess |-> valuesToProcess,
              err |-> ErrorUnknownFlag(value)]
        ELSE IF flag.IsBoolean
        THEN [store |-> [store EXCEPT !.Flags =
                            Put(@, flag.Name,
                                FlagStore(flag, IF flag.IsInverted
                                                THEN <<"f", "a", "l", "s", "e">>
                                                ELSE <<"t", "r", "u", "e">>))],
              valuesToProcess |-> IF take THEN nv.newSlice ELSE valuesToProcess,
              err |-> Nil]
        ELSE IF take
        THEN IF ~Validate(flag, nv.v)
             THEN [store |-> store, valuesToProcess |-> valuesToProcess,
                   err |-> ErrorUnsupportedValue(flag.Name, nv.v)]
             ELSE [store |-> [store EXCEPT !.Flags =
                                 Put(@, flag.Name, FlagStore(flag, nv.v))],
                   valuesToProcess |-> nv.newSlice, err |-> Nil]
        ELSE [store |-> store, valuesToProcess |-> valuesToProcess, err |-> Nil]

\* one flag token, with a non-boolean flag that finds no value to take put
\* back to its default
processFlag_BareResets(commandConfig, value, valuesToProcess, store) ==
    LET l    == lookupFlag(commandConfig, value)
        flag == commandConfig.Flags[l.key]
        nv   == nextValue(valuesToProcess)
    IN  IF ~l.found
        THEN [store |-> store, valuesToProcess |-> valuesToProcess,
              err |-> ErrorUnknownFlag(value)]
        ELSE IF flag.IsBoolean
        THEN [store |-> [store EXCEPT !.Flags =
                            Put(@, flag.Name,
                                FlagStore(flag, IF flag.IsInverted
                                                THEN <<"f", "a", "l", "s", "e">>
                                                ELSE <<"t", "r", "u", "e">>))],
              valuesToProcess |-> valuesToProcess, err |-> Nil]
        ELSE IF Len(nv.v) # 0 /\ ~isFlag(nv.v)
        THEN IF ~Validate(flag, nv.v)
             THEN [store |-> store, valuesToProcess |-> valuesToProcess,
                   err |-> ErrorUnsupportedValue(flag.Name, nv.v)]
             ELSE [store |-> [store EXCEPT !.Flags =
                                 Put(@, flag.Name, FlagStore(flag, nv.v))],
                   valuesToProcess |-> nv.newSlice, err |-> Nil]
        ELSE [store |-> [store EXCEPT !.Flags =
                            Put(@, flag.Name, FlagStoreDefault(flag))],
              valuesToProcess |-> valuesToProcess, err |-> Nil]

\* one flag token of the resolver loop: the store, the remaining stream and
\* the error after it
processFlag(commandConfig, value, valuesToProcess, store) ==
    LET l    == lookupFlag(commandConfig, value)
        flag == commandConfig.Flags[l.key]
        nv   == nextValue(valuesToProcess)
    IN  IF ~l.found
        THEN [store |-> store, valuesToProcess |-> valuesToProcess,
              err |-> ErrorUnknownFlag(value)]
        ELSE IF flag.IsBoolean
        THEN [store |-> [store EXCEPT !.Flags =
                            Put(@, flag.Name,
                                FlagStore(flag, IF flag.IsInverted
                                                THEN <<"f", "a", "l", "s", "e">>
                                                ELSE <<"t", "r", "u", "e">>))],
              valuesToProcess |-> valuesToProcess, err |-> Nil]
        ELSE IF Len(nv.v) # 0 /\ ~isFlag(nv.v)
        THEN IF ~Validate(flag, nv.v)
             THEN [store |-> store, valuesToProcess |-> valuesToProcess,
                   err |-> ErrorUnsupportedValue(flag.Name, nv.v)]
             ELSE [store |-> [store EXCEPT !.Flags =
                                 Put(@, flag.Name, FlagStore(flag, nv.v))],
                   valuesToProcess |-> nv.newSlice, err |-> Nil]
        ELSE [store |-> store, valuesToProcess |-> valuesToProcess, err |-> Nil]

RECURSIVE processArg(_, _, _, _)
\* one positional token of the resolver loop, from position index of
\* commandConfig.ArgNames on: the store and the error after it
processArg(commandConfig, value, store, index) ==
    IF index > Len(commandConfig.ArgNames)
    THEN [store |-> store, err |-> Nil]
    ELSE LET varg   == commandConfig.Args[commandConfig.ArgNames[index]]
             store1 == IF Has(store.Args, varg.Name)
                       THEN store
                       ELSE [store EXCEPT !.Args =
                               Put(@, varg.Name,
                                   [Name |-> varg.Name,
                                    IsVariadic |-> varg.IsVariadic,
                                    Value |-> <<>>])]
             arg    == store1.Args[varg.Name]
         IN  IF ~Validate(varg, value)
             THEN [store |-> store, err |-> ErrorUnsupportedValue(varg.Name, value)]
             ELSE IF Len(arg.Value) = 0
             THEN [store |-> [store1 EXCEPT !.Args[varg.Name].Value = value],
                   err |-> Nil]
             ELSE IF index = Len(commandConfig.ArgNames) /\ arg.IsVariadic
             THEN processArg(commandConfig, value,
                             [store1 EXCEPT !.Args[varg.Name].Value =
                                              @ \o <<",">> \o value],
                             index + 1)
             ELSE processArg(commandConfig, value, store1, index + 1)

RECURSIVE resolve_LastError(_, _, _)
\* the resolver loop going on after a token has raised an error and ending
\* with the error of the last token that raised one
resolve_LastError(commandConfig, valuesToProcess, store) ==
    LET nv == nextValue(valuesToProcess)
    IN  IF Len(nv.v) = 0
        THEN [store |-> store, err |-> Nil]
        ELSE LET r == IF isFlag(nv.v)
                      THEN processFlag(commandConfig, nv.v, nv.newSlice, store)
                      ELSE [valuesToProcess |-> nv.newSlice]
                               @@ processArg(commandConfig, nv.v, store, 1)
                 rest == resolve_LastError(commandConfig, r.valuesToProcess,
                                           r.store)
             IN  IF rest.err # Nil THEN rest
                 ELSE IF r.err # Nil THEN [store |-> r.store, err |-> r.err]
                 ELSE rest

RECURSIVE resolve(_, _, _)
\* the resolver loop: the store and the error when it ends
resolve(commandConfig, valuesToProcess, store) ==
    LET nv == nextValue(valuesToProcess)
    IN  IF Len(nv.v) = 0
        THEN [store |-> store, err |-> Nil]
        ELSE LET r == IF isFlag(nv.v)
                      THEN processFlag(commandConfig, nv.v, nv.newSlice, store)
                      ELSE [valuesToProcess |-> nv.newSlice]
                               @@ processArg(commandConfig, nv.v, store, 1)
             IN  IF r.err # Nil
                 THEN [store |-> r.store, err |-> r.err]
                 ELSE resolve(commandConfig, r.valuesToProcess, r.store)

\* the defaulting with the loop over the arguments left out
storeDefaults_FlagsOnly(commandConfig, store) ==
    [store EXCEPT
       !.Flags = [k \in DOMAIN commandConfig.Flags |->
                    IF Has(store.Flags, k) THEN store.Flags[k]
                    ELSE FlagStoreDefault(commandConfig.Flags[k])]]

\* the two defaulting loops at the end of Parse
storeDefaults(commandConfig, store) ==
    [store EXCEPT
       !.Flags = [k \in DOMAIN commandConfig.Flags |->
                    IF Has(store.Flags, k) THEN store.Flags[k]
                    ELSE FlagStoreDefault(commandConfig.Flags[k])],
       !.Args  = [k \in DOMAIN commandConfig.Args |->
                    IF Has(store.Args, k) THEN store.Args[k]
                    ELSE ArgStoreDefault(commandConfig.Args[k])]]

\* Registry.Parse: the two return values, with the command name and the
\* normalized stream that the call worked on
Parse(reg, values) ==
    LET sel     == selectCommand(values, reg)
        stream  == formatCommandValues(sel.valuesToProcess)
        bad     == unsupportedFlags(stream)
        config  == reg[sel.commandName]
        r       == resolve(config, stream,
                           CommandParsed(config.Name, EmptyMap, EmptyMap))
        locals  == [commandName |-> sel.commandName,
                    valuesToProcess |-> sel.valuesToProcess, stream |-> stream]
    IN  IF Len(bad) > 0
        THEN [result |-> NilParsed, err |-> ErrorUnsupportedFlag(bad[1])] @@ locals
        ELSE IF ~Has(reg, sel.commandName)
        THEN [result |-> NilParsed, err |-> ErrorUnknownCommand(sel.commandName)]
                 @@ locals
        ELSE IF r.err # Nil
        THEN [result |-> NilParsed, err |-> r.err] @@ locals
        ELSE [result |-> storeDefaults(config, r.store), err |-> Nil] @@ locals

(***************************************************************************)
(* bounds and inputs                                                       *)
(***************************************************************************)

\* longest token list handed to Parse
MaxTokens == 3

Root == <<>>
Info == <<"i">>

\* names handed to Register
CommandInputs == {Root, Info, <<"i", " ">>}

\* (name, defaultValue) pairs handed to AddArg; the arguments are declared
\* on the root command, the sub-commands take flags only
ArgInputs(cmd) ==
    IF cmd = Root
    THEN {[name |-> <<"a">>, defaultValue |-> <<"m">>],
          [name |-> <<"v", ".", ".", ".">>, defaultValue |-> <<>>]}
    ELSE {}

\* (name, defaultValue, validVals) triples handed to AddArgWithValid
ArgValidInputs(cmd) ==
    IF cmd = Root
    THEN {[name |-> <<"a">>, defaultValue |-> <<"m">>, validVals |-> <<<<"x">>>>]}
    ELSE {}

\* (name, shortName, isBool, defaultValue) tuples handed to AddFlag
FlagInputs(cmd) ==
    IF cmd = Root
    THEN {[name |-> <<"b">>, shortName |-> <<"b">>, isBool |-> TRUE,
           defaultValue |-> <<>>],
          [name |-> <<"f">>, shortName |-> <<"f", "g">>, isBool |-> FALSE,
           defaultValue |-> <<"d">>],
          [name |-> <<"n", "o", "-", "c">>, shortName |-> <<"c">>, isBool |-> TRUE,
           defaultValue |-> <<>>]}
    ELSE {[name |-> <<"b">>, shortName |-> <<"b">>, isBool |-> TRUE,
           defaultValue |-> <<>>]}

\* (name, shortName, isBool, defaultValue, validVals) handed to AddFlagWithValid
FlagValidInputs(cmd) ==
    IF cmd = Root
    THEN {[name |-> <<"f">>, shortName |-> <<"f">>, isBool |-> FALSE,
           defaultValue |-> <<"d">>, validVals |-> <<<<"x">>>>]}
    ELSE {}

\* the malformed token of the README and of TestUnsupportedAssignment
TripleDash == <<"-", "-", "-", "v", "e", "r", "s", "i", "o", "n">>

\* command-line tokens
Tokens ==
    {<<>>, <<"i">>, <<"x">>,
     <<"-", "b">>, <<"-", "f">>, <<"-", "b", "f">>,
     <<"-", "-", "c">>,
     <<"-", "-", "n", "o", "-", "c">>,
     <<"-", "-", "n", "o", "-", "b">>,
     <<"-", "-", "n", "o", "-", "n", "o", "-", "c">>,
     TripleDash}

\* the token lists handed to Parse
TokenLists == UNION {[1..n -> Tokens] : n \in 0..MaxTokens}

(***************************************************************************)
(* state machine: the host program builds the registry, then parses its    *)
(* argument vector once (demo/cmd.go)                                      *)
(***************************************************************************)

\* NewRegistry
Init ==
    /\ registry = EmptyMap
    /\ last = [op |-> "NewRegistry"]
    /\ calls = <<>>

\* Parse has not been called yet
Building == last.op # "Parse"

\* Parse reads the registry and nothing else of the state, so it is taken
\* from one building state per registry: right after NewRegistry, or right
\* after Register of a sub-command (of the root command when it is the only
\* one), the way demo/cmd.go ends its registrations.  Every registry the
\* host can build occurs in such a state, because Register of a registered
\* command returns the existing entry and changes nothing
Built ==
    \/ last.op = "NewRegistry"
    \/ /\ last.op = "Register"
       /\ last.key # Root \/ DOMAIN registry = {Root}

RegisterStep ==
    /\ Building
    /\ UNCHANGED calls
    /\ \E name \in CommandInputs :
        LET r == Register(registry, name)
        IN  /\ registry' = r.reg
            /\ last' = [op |-> "Register", cmd |-> r.key, key |-> r.key,
                        exist |-> r.exist]

AddArgStep ==
    /\ Building
    /\ UNCHANGED calls
    /\ \E cmd \in DOMAIN registry : \E in \in ArgInputs(cmd) :
        LET r == AddArg(registry, cmd, in.name, in.defaultValue)
        IN  /\ registry' = r.reg
            /\ last' = [op |-> "AddArg", cmd |-> cmd, key |-> r.key,
                        exist |-> r.exist]

AddArgWithValidStep ==
    /\ Building
    /\ UNCHANGED calls
    /\ \E cmd \in DOMAIN registry : \E in \in ArgValidInputs(cmd) :
        LET r == AddArgWithValid(registry, cmd, in.name, in.defaultValue,
                                 in.validVals)
        IN  /\ registry' = r.reg
            /\ last' = [op |-> "AddArgWithValid", cmd |-> cmd, key |-> r.key,
                        exist |-> r.exist]

AddFlagStep ==
    /\ Building
    /\ UNCHANGED calls
    /\ \E cmd \in DOMAIN registry : \E in \in FlagInputs(cmd) :
        LET r == AddFlag(registry, cmd, in.name, in.shortName, in.isBool,
                         in.defaultValue)
        IN  /\ registry' = r.reg
            /\ last' = [op |-> "AddFlag", cmd |-> cmd, key |-> r.key,
                        exist |-> r.exist]

AddFlagWithValidStep ==
    /\ Building
    /\ UNCHANGED calls
    /\ \E cmd \in DOMAIN registry : \E in \in FlagValidInputs(cmd) :
        LET r == AddFlagWithValid(registry, cmd, in.name, in.shortName, in.isBool,
                                  in.defaultValue, in.validVals)
        IN  /\ registry' = r.reg
            /\ last' = [op |-> "AddFlagWithValid", cmd |-> cmd, key |-> r.key,
                        exist |-> r.exist]

ParseStep ==
    /\ Built
    /\ UNCHANGED calls
    /\ \E values \in TokenLists :
        /\ last' = [op |-> "Parse", values |-> values] @@ Parse(registry, values)
        /\ UNCHANGED registry

Next ==
    \/ RegisterStep
    \/ AddArgStep
    \/ AddArgWithValidStep
    \/ AddFlagStep
    \/ AddFlagWithValidStep
    \/ ParseStep

Spec == Init /\ [][Next]_vars

(***************************************************************************)
(* vocabulary of the properties                                            *)
(***************************************************************************)

\* the state right after a Parse call: last holds its input (values), its
\* two return values (result, err), the command name it selected and the
\* stream it worked on
IsParse == last.op = "Parse"

\* Parse returned a result and no error
Succeeded == IsParse /\ last.err = Nil /\ ~last.result.nil

\* a token is flag-shaped: at least two characters, the first a dash
FlagShaped(t) == Len(t) >= 2 /\ t[1] = "-"

\* a flag-shaped token with a malformed dash structure: two characters
\* starting with two dashes, or longer and not starting with exactly two
Malformed(t) ==
    /\ FlagShaped(t)
    /\ IF Len(t) = 2 THEN t[2] = "-" ELSE ~(t[2] = "-" /\ t[3] # "-")

\* the positions of the malformed tokens of a stream
MalformedAt(stream) == {k \in 1..Len(stream) : Malformed(stream[k])}

\* the least element of a non-empty set of positions
Least(S) == CHOOSE k \in S : \A j \in S : k <= j

\* the names declared on a command: the keys of its flag table and its
\* ordered argument names
DeclaredFlags(cmd) == DOMAIN registry[cmd].Flags
DeclaredArgs(cmd) ==
    {registry[cmd].ArgNames[i] : i \in 1..Len(registry[cmd].ArgNames)}

(***************************************************************************)
(* C1: Parse returns either a nil result with an error, or a nil error     *)
(* with a result whose flag keys are exactly the flag names declared for   *)
(* the selected command and whose argument keys are exactly its declared   *)
(* argument names; never a result with an error, never a result missing a  *)
(* declared name.                                                          *)
(***************************************************************************)
ParseIsAtomic ==
    IsParse =>
        \/ /\ last.result = NilParsed
           /\ last.err # Nil
        \/ /\ last.err = Nil
           /\ ~last.result.nil
           /\ Has(registry, last.commandName)
           /\ last.result.Name = last.commandName
           /\ DOMAIN last.result.Flags = DeclaredFlags(last.commandName)
           /\ DOMAIN last.result.Args = DeclaredArgs(last.commandName)
           /\ \A k \in DOMAIN last.result.Flags : last.result.Flags[k].Name = k
           /\ \A k \in DOMAIN last.result.Args : last.result.Args[k].Name = k

\* a successful Parse of a command with flags and two arguments, one
\* argument set by a token and the other left to the defaulting
ParseIsAtomicWitness ==
    /\ Succeeded
    /\ DeclaredFlags(last.commandName) # {}
    /\ Cardinality(DeclaredArgs(last.commandName)) = 2
    /\ Len(last.stream) = 1
    /\ \E k \in DOMAIN last.result.Args : last.result.Args[k].Value = <<"x">>

(***************************************************************************)
(* C2: command selection.  The root command is selected, and no token is   *)
(* taken from the stream, if and only if it is registered and the token    *)
(* list is empty, or its first token is flag-shaped, or its first token is *)
(* no registered command name and the root command declares an argument;   *)
(* otherwise the first token is removed from the stream and is the command *)
(* name.                                                                   *)
(***************************************************************************)
RootCondition ==
    /\ Has(registry, Root)
    /\ \/ last.values = <<>>
       \/ FlagShaped(last.values[1])
       \/ /\ ~Has(registry, last.values[1])
          /\ DeclaredArgs(Root) # {}

CommandSelection ==
    IsParse =>
        IF RootCondition
        THEN /\ last.commandName = Root
             /\ last.valuesToProcess = last.values
        ELSE IF last.values = <<>>
        THEN /\ last.commandName = <<>>
             /\ last.valuesToProcess = <<>>
        ELSE /\ last.commandName = last.values[1]
             /\ last.valuesToProcess = Tail(last.values)

\* the first token names a registered command while the root command
\* declares an argument: the named command is selected
CommandSelectionWitness ==
    /\ IsParse
    /\ Has(registry, Root)
    /\ DeclaredArgs(Root) # {}
    /\ Has(registry, Info)
    /\ Len(last.values) >= 2
    /\ last.values[1] = Info
    /\ last.commandName = Info
    /\ last.valuesToProcess = Tail(last.values)

(***************************************************************************)
(* C3: a selected command name that is no key of the registry.             *)
(***************************************************************************)

\* C3 as stated: whenever the selected command name is not a key of the
\* registry, Parse returns ErrorUnknownCommand carrying that name
UnknownCommandAlways ==
    (IsParse /\ ~Has(registry, last.commandName)) =>
        /\ last.result = NilParsed
        /\ last.err = ErrorUnknownCommand(last.commandName)

\* C3 amended: when the selected command name is not a key of the registry
\* and the stream left after the selection holds no malformed flag, Parse
\* returns ErrorUnknownCommand carrying that name (with a malformed flag in
\* the stream it returns ErrorUnsupportedFlag); in particular for the empty
\* list without a root command the name is "", and for a non-flag first
\* token that is no registered command, with the root command unregistered
\* or registered without arguments, the name is that token
UnknownCommandUnlessMalformed ==
    IsParse =>
        /\ ~Has(registry, last.commandName) =>
              /\ last.result = NilParsed
              /\ IF MalformedAt(last.stream) = {}
                 THEN last.err = ErrorUnknownCommand(last.commandName)
                 ELSE last.err.type = "ErrorUnsupportedFlag"
        /\ (last.values = <<>> /\ ~Has(registry, Root)) =>
              last.err = ErrorUnknownCommand(<<>>)
        /\ ( /\ last.values # <<>>
             /\ ~FlagShaped(last.values[1])
             /\ ~Has(registry, last.values[1])
             /\ ~Has(registry, Root) \/ DeclaredArgs(Root) = {}
             /\ MalformedAt(last.stream) = {} ) =>
              last.err = ErrorUnknownCommand(last.values[1])

\* the root command is registered without arguments and the first token is
\* no registered command
UnknownCommandWitness ==
    /\ IsParse
    /\ Has(registry, Root)
    /\ DeclaredArgs(Root) = {}
    /\ Len(last.values) = 2
    /\ last.values[1] = <<"x">>
    /\ last.err = ErrorUnknownCommand(<<"x">>)

(***************************************************************************)
(* C4: the one-token list ["---version"].                                  *)
(***************************************************************************)

\* C4 as stated: on every registry, Parse of ["---version"] returns
\* ErrorUnsupportedFlag naming "---version"
TripleDashAnyRegistry ==
    (IsParse /\ last.values = <<TripleDash>>) =>
        last.err = ErrorUnsupportedFlag(TripleDash)

\* C4 amended: on every registry with a registered root command, Parse of
\* ["---version"] returns ErrorUnsupportedFlag naming "---version"; without
\* a root command the token is taken as the command name, and Parse returns
\* ErrorUnknownCommand naming it unless a command of that name is registered
TripleDashWithRoot ==
    (IsParse /\ last.values = <<TripleDash>>) =>
        /\ Has(registry, Root) =>
              /\ last.result = NilParsed
              /\ last.err = ErrorUnsupportedFlag(TripleDash)
        /\ (~Has(registry, Root) /\ ~Has(registry, TripleDash)) =>
              /\ last.result = NilParsed
              /\ last.err = ErrorUnknownCommand(TripleDash)

\* ["---version"] on a registry with the root command and a sub-command
TripleDashWitness ==
    /\ IsParse
    /\ last.values = <<TripleDash>>
    /\ DOMAIN registry = {Root, Info}
    /\ DeclaredArgs(Root) = {}
    /\ last.err = ErrorUnsupportedFlag(TripleDash)

(***************************************************************************)
(* C5: when the normalized stream left after the command selection holds   *)
(* a malformed flag, Parse returns ErrorUnsupportedFlag naming the first   *)
(* such token, whatever else is wrong with the command or with the tokens  *)
(* before it.                                                              *)
(***************************************************************************)
MalformedFlagFirst ==
    (IsParse /\ MalformedAt(last.stream) # {}) =>
        /\ last.result = NilParsed
        /\ last.err = ErrorUnsupportedFlag(last.stream[Least(MalformedAt(last.stream))])

\* a well-formed flag that the command does not declare stands before the
\* malformed one
MalformedFlagFirstWitness ==
    /\ IsParse
    /\ Has(registry, last.commandName)
    /\ Len(last.stream) = 2
    /\ FlagShaped(last.stream[1])
    /\ ~Malformed(last.stream[1])
    /\ ~lookupFlag(registry[last.commandName], last.stream[1]).found
    /\ Malformed(last.stream[2])
    /\ last.err = ErrorUnsupportedFlag(last.stream[2])

(***************************************************************************)
(* vocabulary of the resolver properties                                   *)
(***************************************************************************)

\* the command that Parse selected and found in the registry
Selected == registry[last.commandName]

\* Parse reached its resolver loop: the command is registered and the
\* stream holds no malformed flag
Resolving ==
    /\ IsParse
    /\ Has(registry, last.commandName)
    /\ MalformedAt(last.stream) = {}

\* no token of the stream is the empty string
NoEmptyToken(stream) == \A k \in 1..Len(stream) : stream[k] # <<>>

\* the walk reaches the token at position k: no token before it is empty
\* or raises an error
Walked(k) ==
    /\ NoEmptyToken(SubSeq(last.stream, 1, k - 1))
    /\ resolve(Selected, SubSeq(last.stream, 1, k - 1),
               CommandParsed(Selected.Name, EmptyMap, EmptyMap)).err = Nil

\* a token starts with --no-
NoPrefixed(t) == Len(t) >= 5 /\ SubSeq(t, 1, 5) = <<"-", "-", "n", "o", "-">>

\* the name a well-formed flag token asks for: the character of a short
\* token, the token without --no- when it starts so, the token without --
\* otherwise
AskedName(t) ==
    IF Len(t) = 2 THEN <<t[2]>>
    ELSE IF NoPrefixed(t) THEN SubSeq(t, 6, Len(t))
    ELSE SubSeq(t, 3, Len(t))

\* a well-formed flag token that resolves to no flag of the command
Unresolvable(config, t) ==
    IF Len(t) = 2
    THEN ~Has(config.flagsShort, AskedName(t))
    ELSE ~Has(config.Flags, AskedName(t))

(***************************************************************************)
(* C6: a well-formed flag token that the walk reaches and that resolves to *)
(* no flag of the selected command (a short token whose character is not   *)
(* in the short-alias table, a long token whose name is not in the flag    *)
(* table) makes Parse return ErrorUnknownFlag naming the token as written. *)
(***************************************************************************)
UnknownFlagForUnresolved ==
    Resolving =>
        \A k \in 1..Len(last.stream) :
            ( /\ FlagShaped(last.stream[k])
              /\ Unresolvable(Selected, last.stream[k])
              /\ Walked(k) ) =>
                /\ last.result = NilParsed
                /\ last.err = ErrorUnknownFlag(last.stream[k])

(***************************************************************************)
(* C7: for a flag declared as inverted under no-N, a successful Parse      *)
(* holds N = "true" when the list has no --no-N token and N = "false" when *)
(* it has one, and the bare spelling --N makes Parse return                *)
(* ErrorUnknownFlag naming --N.                                            *)
(***************************************************************************)
InvertedFlagValues ==
    Resolving =>
        \A N \in DOMAIN Selected.Flags :
            Selected.Flags[N].IsInverted =>
                /\ (Succeeded /\ NoEmptyToken(last.stream)) =>
                      last.result.Flags[N].Value =
                          IF \E k \in 1..Len(last.stream) :
                                 last.stream[k] = <<"-", "-", "n", "o", "-">> \o N
                          THEN <<"f", "a", "l", "s", "e">>
                          ELSE <<"t", "r", "u", "e">>
                /\ \A k \in 1..Len(last.stream) :
                      (last.stream[k] = <<"-", "-">> \o N /\ Walked(k)) =>
                          last.err = ErrorUnknownFlag(<<"-", "-">> \o N)

(***************************************************************************)
(* C8: a token starting with --no- resolves only to a flag declared as     *)
(* inverted whose name is the token without its first five characters;     *)
(* every other --no- token that the walk reaches makes Parse return        *)
(* ErrorUnknownFlag naming the token.                                      *)
(***************************************************************************)
NoPrefixOnlyInverted ==
    Resolving =>
        \A k \in 1..Len(last.stream) :
            ( /\ NoPrefixed(last.stream[k])
              /\ Walked(k)
              /\ ~( /\ Has(Selected.Flags, AskedName(last.stream[k]))
                    /\ Selected.Flags[AskedName(last.stream[k])].IsInverted ) ) =>
                /\ last.result = NilParsed
                /\ last.err = ErrorUnknownFlag(last.stream[k])

(***************************************************************************)
(* C9: positional matching.  In a stream of positional tokens the j-th     *)
(* token goes to the j-th declared argument (the first one still unset),   *)
(* a token after the last one to the last argument when it is variadic,    *)
(* and is checked against the valid-value set of that argument only;       *)
(* ErrorUnsupportedValue naming that argument and the token is returned    *)
(* exactly when the token is outside that set.                             *)
(***************************************************************************)

\* the argument that the j-th positional token is assigned to, <<>> for none
SlotOf(config, j) ==
    LET n == Len(config.ArgNames)
    IN  IF j <= n THEN <<config.ArgNames[j]>>
        ELSE IF n > 0 /\ config.Args[config.ArgNames[n]].IsVariadic
        THEN <<config.ArgNames[n]>>
        ELSE <<>>

\* the positions of the tokens that their own argument's valid-value set
\* rejects
RejectedAt(config, stream) ==
    {j \in 1..Len(stream) :
        /\ SlotOf(config, j) # <<>>
        /\ config.Args[SlotOf(config, j)[1]].ValidVals # {}
        /\ stream[j] \notin config.Args[SlotOf(config, j)[1]].ValidVals}

PositionalMatching ==
    ( /\ Resolving
      /\ NoEmptyToken(last.stream)
      /\ \A k \in 1..Len(last.stream) : ~FlagShaped(last.stream[k]) ) =>
        LET bad == RejectedAt(Selected, last.stream)
        IN  IF bad = {}
            THEN /\ Succeeded
                 /\ \A j \in 1..Len(Selected.ArgNames) :
                       ( /\ j <= Len(last.stream)
                         /\ ~Selected.Args[Selected.ArgNames[j]].IsVariadic ) =>
                           last.result.Args[Selected.ArgNames[j]].Value
                               = last.stream[j]
            ELSE last.err =
                   ErrorUnsupportedValue(SlotOf(Selected, Least(bad))[1],
                                         last.stream[Least(bad)])

(***************************************************************************)
(* vocabulary of the variadic property                                     *)
(***************************************************************************)

\* a well-formed flag token spelled the way its flag is declared: a short
\* token whose character is a short alias, a --no- token naming an inverted
\* flag, any other long token naming a flag that is not inverted
Resolvable(config, t) ==
    IF Len(t) = 2
    THEN Has(config.flagsShort, AskedName(t))
    ELSE /\ Has(config.Flags, AskedName(t))
         /\ config.Flags[AskedName(t)].IsInverted = NoPrefixed(t)

\* the declared flag that such a token names
FlagOf(config, t) ==
    IF Len(t) = 2
    THEN config.Flags[config.flagsShort[AskedName(t)]]
    ELSE config.Flags[AskedName(t)]

\* the flag token t, followed by rest, takes the next token as its value
TakesValue(config, t, rest) ==
    /\ Resolvable(config, t)
    /\ ~FlagOf(config, t).IsBoolean
    /\ rest # <<>>
    /\ rest[1] # <<>>
    /\ ~FlagShaped(rest[1])

RECURSIVE CleanFlags(_, _)
\* every flag token of the stream is resolvable and every value that a flag
\* takes is within the flag's valid-value set
CleanFlags(config, stream) ==
    IF stream = <<>> THEN TRUE
    ELSE LET t    == Head(stream)
             rest == Tail(stream)
         IN  IF ~FlagShaped(t) THEN CleanFlags(config, rest)
             ELSE /\ Resolvable(config, t)
                  /\ IF TakesValue(config, t, rest)
                     THEN /\ \/ FlagOf(config, t).ValidVals = {}
                             \/ rest[1] \in FlagOf(config, t).ValidVals
                          /\ CleanFlags(config, Tail(rest))
                     ELSE CleanFlags(config, rest)

RECURSIVE PositionalsOf(_, _)
\* the positional tokens of the stream in input order: the tokens that are
\* neither flags nor values taken by a flag
PositionalsOf(config, stream) ==
    IF stream = <<>> THEN <<>>
    ELSE LET t    == Head(stream)
             rest == Tail(stream)
         IN  IF ~FlagShaped(t) THEN <<t>> \o PositionalsOf(config, rest)
             ELSE IF TakesValue(config, t, rest)
             THEN PositionalsOf(config, Tail(rest))
             ELSE PositionalsOf(config, rest)

RECURSIVE JoinByComma(_)
\* the tokens of a non-empty sequence joined by commas
JoinByComma(tokens) ==
    IF Len(tokens) = 1 THEN tokens[1]
    ELSE tokens[1] \o <<",">> \o JoinByComma(Tail(tokens))

(***************************************************************************)
(* C10: for a command whose last declared argument is variadic, with k     *)
(* arguments declared before it, a stream with k+N positional tokens       *)
(* (N >= 1), each within the valid-value set of its own argument, and      *)
(* flags interleaved anywhere, yields a successful result in which the     *)
(* variadic argument holds the last N positional tokens joined by commas   *)
(* in input order and each of the first k arguments holds the              *)
(* corresponding earlier token.                                            *)
(***************************************************************************)
VariadicJoin ==
    ( /\ Resolving
      /\ NoEmptyToken(last.stream)
      /\ CleanFlags(Selected, last.stream)
      /\ Len(Selected.ArgNames) > 0
      /\ Selected.Args[Selected.ArgNames[Len(Selected.ArgNames)]].IsVariadic
      /\ Len(PositionalsOf(Selected, last.stream)) >= Len(Selected.ArgNames)
      /\ RejectedAt(Selected, PositionalsOf(Selected, last.stream)) = {} ) =>
        LET n == Len(Selected.ArgNames)
            P == PositionalsOf(Selected, last.stream)
        IN  /\ Succeeded
            /\ \A j \in 1..(n - 1) :
                  last.result.Args[Selected.ArgNames[j]].Value = P[j]
            /\ last.result.Args[Selected.ArgNames[n]].Value
                  = JoinByComma(SubSeq(P, n, Len(P)))

(***************************************************************************)
(* C11: for a command whose last declared argument is not variadic (or     *)
(* that declares no argument), the positional tokens beyond the number of  *)
(* declared arguments are dropped without error: Parse succeeds with the   *)
(* result of the stream without those tokens.                              *)
(***************************************************************************)

RECURSIVE DropExtras(_, _, _)
\* the stream without the positional tokens that follow the first
\* Len(config.ArgNames) ones; seen counts the positional tokens passed
DropExtras(config, stream, seen) ==
    IF stream = <<>> THEN <<>>
    ELSE LET t    == Head(stream)
             rest == Tail(stream)
         IN  IF ~FlagShaped(t)
             THEN (IF seen < Len(config.ArgNames) THEN <<t>> ELSE <<>>)
                      \o DropExtras(config, rest, seen + 1)
             ELSE IF TakesValue(config, t, rest)
             THEN <<t, rest[1]>> \o DropExtras(config, Tail(rest), seen)
             ELSE <<t>> \o DropExtras(config, rest, seen)

\* the last declared argument of the command is variadic
LastIsVariadic(config) ==
    /\ Len(config.ArgNames) > 0
    /\ config.Args[config.ArgNames[Len(config.ArgNames)]].IsVariadic

ExtrasDropped ==
    ( /\ Resolving
      /\ NoEmptyToken(last.stream)
      /\ CleanFlags(Selected, last.stream)
      /\ ~LastIsVariadic(Selected)
      /\ Len(PositionalsOf(Selected, last.stream)) > Len(Selected.ArgNames)
      /\ RejectedAt(Selected, PositionalsOf(Selected, last.stream)) = {} ) =>
        /\ Succeeded
        /\ last.result =
              storeDefaults(Selected,
                  resolve(Selected, DropExtras(Selected, last.stream, 0),
                          CommandParsed(Selected.Name, EmptyMap, EmptyMap)).store)

(***************************************************************************)
(* a second host program: every kind of registration call on the root      *)
(* command (two arguments with valid values, two flags asking for the same *)
(* short name, a no- name with and without isBool), and short token lists  *)
(* with the assignment syntax                                              *)
(***************************************************************************)

\* longest token list handed to Parse by this host
MaxArgv == 2

\* names handed to Register: this host registers the root command only
SchemaCommandInputs == {Root, <<" ">>}

\* (name, defaultValue) pairs handed to AddArg
SchemaArgInputs ==
    {[name |-> <<"a">>, defaultValue |-> <<"m">>],
     [name |-> <<"v", ".", ".", ".">>, defaultValue |-> <<>>]}

\* (name, defaultValue, validVals) triples handed to AddArgWithValid
SchemaArgValidInputs ==
    {[name |-> <<"a">>, defaultValue |-> <<"m">>, validVals |-> <<<<"x">>>>],
     [name |-> <<"v", ".", ".", ".">>, defaultValue |-> <<>>,
      validVals |-> <<<<"x">>>>]}

\* (name, shortName, isBool, defaultValue) tuples handed to AddFlag
SchemaFlagInputs ==
    {[name |-> <<"b">>, shortName |-> <<"b">>, isBool |-> TRUE,
      defaultValue |-> <<>>],
     [name |-> <<"f">>, shortName |-> <<"b", "f">>, isBool |-> FALSE,
      defaultValue |-> <<"d">>],
     [name |-> <<"n", "o", "-", "c">>, shortName |-> <<"c">>, isBool |-> TRUE,
      defaultValue |-> <<>>],
     [name |-> <<"n", "o", "-", "c">>, shortName |-> <<"c">>, isBool |-> FALSE,
      defaultValue |-> <<"d">>]}

\* (name, shortName, isBool, defaultValue, validVals) handed to AddFlagWithValid
SchemaFlagValidInputs ==
    {[name |-> <<"f">>, shortName |-> <<"b", "f">>, isBool |-> FALSE,
      defaultValue |-> <<"d">>, validVals |-> <<<<"x">>>>]}

\* command-line tokens of this host
SchemaTokens ==
    {<<>>, <<"i">>, <<"x">>, <<"x", "=", "x">>,
     <<"-", "b">>, <<"-", "c">>,
     <<"-", "-", "b">>, <<"-", "-", "f">>,
     <<"-", "-", "n", "o", "-", "c">>,
     <<"-", "-", "b", "=", "x">>,
     <<"-", "-", "f", "=">>,
     <<"-", "-", "f", "=", "x">>,
     <<"-", "-", "f", "=", "i", "=", "x">>}

\* the token lists handed to Parse by this host
SchemaTokenLists == UNION {[1..n -> SchemaTokens] : n \in 0..MaxArgv}

SchemaRegisterStep ==
    /\ Building
    /\ UNCHANGED calls
    /\ \E name \in SchemaCommandInputs :
        LET r == Register(registry, name)
        IN  /\ registry' = r.reg
            /\ last' = [op |-> "Register", cmd |-> r.key, key |-> r.key,
                        exist |-> r.exist]

SchemaAddArgStep ==
    /\ Building
    /\ UNCHANGED calls
    /\ Has(registry, Root)
    /\ \E in \in SchemaArgInputs :
        LET r == AddArg(registry, Root, in.name, in.defaultValue)
        IN  /\ registry' = r.reg
            /\ last' = [op |-> "AddArg", cmd |-> Root, key |-> r.key,
                        exist |-> r.exist, in |-> in]

SchemaAddArgWithValidStep ==
    /\ Building
    /\ UNCHANGED calls
    /\ Has(registry, Root)
    /\ \E in \in SchemaArgValidInputs :
        LET r == AddArgWithValid(registry, Root, in.name, in.defaultValue,
                                 in.validVals)
        IN  /\ registry' = r.reg
            /\ last' = [op |-> "AddArgWithValid", cmd |-> Root, key |-> r.key,
                        exist |-> r.exist, in |-> in]

SchemaAddFlagStep ==
    /\ Building
    /\ UNCHANGED calls
    /\ Has(registry, Root)
    /\ \E in \in SchemaFlagInputs :
        LET r == AddFlag(registry, Root, in.name, in.shortName, in.isBool,
                         in.defaultValue)
        IN  /\ registry' = r.reg
            /\ last' = [op |-> "AddFlag", cmd |-> Root, key |-> r.key,
                        exist |-> r.exist, in |-> in]

SchemaAddFlagWithValidStep ==
    /\ Building
    /\ UNCHANGED calls
    /\ Has(registry, Root)
    /\ \E in \in SchemaFlagValidInputs :
        LET r == AddFlagWithValid(registry, Root, in.name, in.shortName,
                                  in.isBool, in.defaultValue, in.validVals)
        IN  /\ registry' = r.reg
            /\ last' = [op |-> "AddFlagWithValid", cmd |-> Root, key |-> r.key,
                        exist |-> r.exist, in |-> in]

SchemaParseStep ==
    /\ Built
    /\ UNCHANGED calls
    /\ \E values \in SchemaTokenLists :
        /\ last' = [op |-> "Parse", values |-> values] @@ Parse(registry, values)
        /\ UNCHANGED registry

SchemaNext ==
    \/ SchemaRegisterStep
    \/ SchemaAddArgStep
    \/ SchemaAddArgWithValidStep
    \/ SchemaAddFlagStep
    \/ SchemaAddFlagWithValidStep
    \/ SchemaParseStep

SchemaSpec == Init /\ [][SchemaNext]_vars

(***************************************************************************)
(* C12: valid-value enforcement.  When the walk reaches a non-boolean flag *)
(* that takes a value outside its non-empty valid-value set, or a          *)
(* positional token outside the non-empty valid-value set of the argument  *)
(* it is assigned to, Parse returns ErrorUnsupportedValue naming that flag *)
(* or argument and the value; and no successful result holds a value given *)
(* by a token that is outside the declared set.                            *)
(***************************************************************************)

\* the number of positional tokens among the first k tokens of the stream
PositionalsUpTo(config, stream, k) ==
    Len(PositionalsOf(config, SubSeq(stream, 1, k)))

\* the token at position k of the stream is a positional token
IsPositionalAt(config, stream, k) ==
    PositionalsUpTo(config, stream, k) = PositionalsUpTo(config, stream, k - 1) + 1

\* the value v is acceptable to the definition def: the valid-value set is
\* empty or holds v
Accepts(def, v) == def.ValidVals = {} \/ v \in def.ValidVals

ValidValuesEnforced ==
    (Resolving /\ NoEmptyToken(last.stream)) =>
        /\ \A k \in 1..Len(last.stream) :
              LET t    == last.stream[k]
                  rest == SubSeq(last.stream, k + 1, Len(last.stream))
              IN  ( /\ Walked(k)
                    /\ FlagShaped(t)
                    /\ TakesValue(Selected, t, rest)
                    /\ ~Accepts(FlagOf(Selected, t), rest[1]) ) =>
                      /\ last.result = NilParsed
                      /\ last.err = ErrorUnsupportedValue(FlagOf(Selected, t).Name,
                                                          rest[1])
        /\ \A k \in 1..Len(last.stream) :
              LET t    == last.stream[k]
                  slot == SlotOf(Selected, PositionalsUpTo(Selected, last.stream, k))
              IN  ( /\ Walked(k)
                    /\ IsPositionalAt(Selected, last.stream, k)
                    /\ slot # <<>>
                    /\ ~Accepts(Selected.Args[slot[1]], t) ) =>
                      /\ last.result = NilParsed
                      /\ last.err = ErrorUnsupportedValue(slot[1], t)
        /\ Succeeded =>
              /\ \A F \in DOMAIN Selected.Flags :
                    \/ last.result.Flags[F].Value = Selected.Flags[F].DefaultValue
                    \/ Selected.Flags[F].IsBoolean
                    \/ Accepts(Selected.Flags[F], last.result.Flags[F].Value)
              /\ \A A \in DOMAIN Selected.Args :
                    \/ last.result.Args[A].Value = Selected.Args[A].DefaultValue
                    \/ LET parts == Split(last.result.Args[A].Value, ",")
                       IN  \A i \in 1..Len(parts) :
                               Accepts(Selected.Args[A], parts[i])

(***************************************************************************)
(* C13: a non-boolean flag token that the walk reaches consumes the token  *)
(* right after it as its value if and only if that token exists and is not *)
(* flag-shaped; the consumed token is not processed as a positional        *)
(* argument; when nothing is consumed the flag is left as it was, so that  *)
(* it keeps its registered default in the result.                          *)
(***************************************************************************)

\* the store of the resolver loop after the first k tokens of the stream
StoreAfter(k) ==
    resolve(Selected, SubSeq(last.stream, 1, k),
            CommandParsed(Selected.Name, EmptyMap, EmptyMap)).store

NonBooleanConsumes ==
    Resolving =>
        \A k \in 1..Len(last.stream) :
            LET t == last.stream[k]
            IN  ( /\ Walked(k)
                  /\ FlagShaped(t)
                  /\ Resolvable(Selected, t)
                  /\ ~FlagOf(Selected, t).IsBoolean ) =>
                    IF k < Len(last.stream) /\ ~FlagShaped(last.stream[k + 1])
                    THEN Accepts(FlagOf(Selected, t), last.stream[k + 1]) =>
                           /\ Has(StoreAfter(k + 1).Flags, FlagOf(Selected, t).Name)
                           /\ StoreAfter(k + 1).Flags[FlagOf(Selected, t).Name].Value
                                  = last.stream[k + 1]
                           /\ StoreAfter(k + 1).Args = StoreAfter(k - 1).Args
                    ELSE /\ StoreAfter(k) = StoreAfter(k - 1)
                         /\ ( /\ Succeeded
                              /\ ~Has(StoreAfter(Len(last.stream)).Flags,
                                      FlagOf(Selected, t).Name) ) =>
                                last.result.Flags[FlagOf(Selected, t).Name].Value
                                    = FlagOf(Selected, t).DefaultValue

(***************************************************************************)
(* C14: a boolean flag token that the walk reaches sets its flag to "true" *)
(* ("false" when it is the --no- spelling of an inverted flag) and takes   *)
(* no token off the stream: the tokens after it, the value part of         *)
(* --bool=value included, are processed as if the walk started at them     *)
(* with the flag set.                                                      *)
(***************************************************************************)

\* the store with the boolean flag of token t set by that token
WithBoolean(store, config, t) ==
    [store EXCEPT !.Flags =
        Put(@, FlagOf(config, t).Name,
            [Name |-> FlagOf(config, t).Name, IsBoolean |-> TRUE,
             Value |-> IF NoPrefixed(t) THEN <<"f", "a", "l", "s", "e">>
                                        ELSE <<"t", "r", "u", "e">>])]

ShortFor(values, X, Y) ==
    [i \in 1..Len(values) |->
        IF values[i] = <<"-", "-">> \o X THEN <<"-">> \o Y ELSE values[i]]

LongShortEquivalence ==
    IsParse =>
        \A cmd \in DOMAIN registry : \A X \in DOMAIN registry[cmd].Flags :
            LET flag == registry[cmd].Flags[X]
                r    == Parse(registry, ShortFor(last.values, X, flag.ShortName))
            IN  (~flag.IsInverted /\ flag.ShortName # <<>>) =>
                    /\ r.result = last.result
                    /\ r.err.type = last.err.type

(***************************************************************************)
(* C16: the assignment syntax                                              *)
(***************************************************************************)

\* the positions of = in a token
AssignAt(t) == {i \in 1..Len(t) : t[i] = "="}

\* a flag-shaped token written name=value
Assignment(t) == FlagShaped(t) /\ AssignAt(t) # {}

\* the name and the value of an assignment: the token before and after its
\* first =
NameOf(t) == SubSeq(t, 1, Least(AssignAt(t)) - 1)
ValueOf(t) == SubSeq(t, Least(AssignAt(t)) + 1, Len(t))

\* an assignment whose name is itself flag-shaped and whose value is neither
\* empty nor blank and holds no =
PlainAssignment(t) ==
    /\ FlagShaped(NameOf(t))
    /\ Trim(ValueOf(t), <<" ">>) # <<>>
    /\ AssignAt(ValueOf(t)) = {}

RECURSIVE TwoTokenForm(_, _)
\* the token list with each assignment written as the two tokens name,
\* value; with plainOnly, only the plain assignments
TwoTokenForm(values, plainOnly) ==
    IF values = <<>> THEN <<>>
    ELSE LET t == Head(values)
         IN  (IF Assignment(t) /\ (plainOnly => PlainAssignment(t))
              THEN <<NameOf(t), ValueOf(t)>>
              ELSE <<t>>) \o TwoTokenForm(Tail(values), plainOnly)

\* the token list handed to Parse with the tokens after the command
\* selection replaced by tokens
WithTokens(tokens) ==
    SubSeq(last.values, 1, Len(last.values) - Len(last.valuesToProcess)) \o tokens

\* the outcome of Parse on values is the outcome recorded in last
SameOutcome(values) ==
    LET r == Parse(registry, values)
    IN  r.result = last.result /\ r.err = last.err

\* C16 as stated: among the tokens left after the command selection, a
\* flag-shaped token name=value gives the same Parse outcome as the two
\* tokens name, value, for every value; and a token list in which no
\* flag-shaped token holds = is processed token by token, a positional
\* token holding = being assigned whole
AssignmentAnyValue ==
    IsParse =>
        /\ SameOutcome(WithTokens(
               TwoTokenForm(last.valuesToProcess, FALSE)))
        /\ (\A k \in 1..Len(last.valuesToProcess) :
                ~Assignment(last.valuesToProcess[k])) =>
              last.stream = last.valuesToProcess

\* C16 amended: among the tokens left after the command selection, a
\* flag-shaped token name=value whose name is at least two characters long
\* and whose value is not blank and holds no = gives the same Parse outcome
\* as the two tokens name, value; and a token
\* list in which no flag-shaped token holds = is processed token by token,
\* a positional token holding = being assigned whole
AssignmentPlainValue ==
    IsParse =>
        /\ SameOutcome(WithTokens(
               TwoTokenForm(last.valuesToProcess, TRUE)))
        /\ (\A k \in 1..Len(last.valuesToProcess) :
                ~Assignment(last.valuesToProcess[k])) =>
              last.stream = last.valuesToProcess

\* --f=x gives the non-boolean flag f the value x, and the positional token
\* x=x goes whole to the first argument
AssignmentWitness ==
    /\ Succeeded
    /\ last.values = << <<"-", "-", "f", "=", "x">>, <<"x", "=", "x">> >>
    /\ Has(Selected.Flags, <<"f">>)
    /\ last.result.Flags[<<"f">>].Value = <<"x">>
    /\ Len(Selected.ArgNames) > 0
    /\ last.result.Args[Selected.ArgNames[1]].Value = <<"x", "=", "x">>

(***************************************************************************)
(* C17: defaulting.  In every successful result each declared flag that no *)
(* flag token of the stream resolves to, and each declared argument beyond *)
(* the positional tokens of the stream, holds its registered default value *)
(* and the IsBoolean / IsVariadic marker of its definition; and Parse of   *)
(* the empty list on a registry with a root command succeeds with the name *)
(* "" and every flag and argument of the root command at its default.      *)
(***************************************************************************)

\* the flag entry and the argument entry of a result that hold the default
FlagAtDefault(config, F) ==
    last.result.Flags[F] = [Name |-> F,
                            IsBoolean |-> config.Flags[F].IsBoolean,
                            Value |-> config.Flags[F].DefaultValue]
ArgAtDefault(config, A) ==
    last.result.Args[A] = [Name |-> A,
                           IsVariadic |-> config.Args[A].IsVariadic,
                           Value |-> config.Args[A].DefaultValue]

Defaulting ==
    /\ Succeeded =>
        /\ \A F \in DOMAIN Selected.Flags :
              (\A k \in 1..Len(last.stream) :
                   FlagShaped(last.stream[k]) =>
                       lookupFlag(Selected, last.stream[k]).key # F) =>
                  FlagAtDefault(Selected, F)
        /\ \A j \in 1..Len(Selected.ArgNames) :
              (j > Len(PositionalsOf(Selected, last.stream))) =>
                  ArgAtDefault(Selected, Selected.ArgNames[j])
    /\ (IsParse /\ last.values = <<>> /\ Has(registry, Root)) =>
        /\ Succeeded
        /\ last.result.Name = Root
        /\ \A F \in DOMAIN registry[Root].Flags : FlagAtDefault(registry[Root], F)
        /\ \A A \in DOMAIN registry[Root].Args : ArgAtDefault(registry[Root], A)

\* Parse of the empty list on a root command with a boolean, a non-boolean
\* and an inverted flag and two arguments, one of them variadic
DefaultingWitness ==
    /\ Succeeded
    /\ last.values = <<>>
    /\ DOMAIN registry[Root].Flags = {<<"b">>, <<"f">>, <<"c">>}
    /\ Len(registry[Root].ArgNames) = 2
    /\ last.result.Flags[<<"b">>].Value = <<"f", "a", "l", "s", "e">>
    /\ last.result.Flags[<<"f">>].Value = <<"d">>
    /\ last.result.Flags[<<"c">>].Value = <<"t", "r", "u", "e">>
    /\ last.result.Args[<<"a">>].Value = <<"m">>
    /\ last.result.Args[<<"v">>].IsVariadic

(***************************************************************************)
(* vocabulary of the registration properties                               *)
(***************************************************************************)

\* the name an argument is registered under: the name given to AddArg
\* without whitespaces and without the variadic suffix
NormalArgName(name) ==
    LET n == ReplaceAll(name, " ")
    IN  IF HasSuffix(n, <<".", ".", ".">>) THEN SubSeq(n, 1, Len(n) - 3) ELSE n

\* the name a flag is registered under: the name given to AddFlag without
\* whitespaces and without the no- prefix
NormalFlagName(name) ==
    LET n == ReplaceAll(name, " ")
    IN  IF HasPrefix(n, <<"n", "o", "-">>) THEN SubSeq(n, 4, Len(n)) ELSE n

\* the last call was an AddArg / an AddFlag call, with or without valid values
ArgCall(l) == l.op \in {"AddArg", "AddArgWithValid"}
FlagCall(l) == l.op \in {"AddFlag", "AddFlagWithValid"}

\* no name occurs twice in the sequence
NoDuplicates(seq) ==
    \A i, j \in 1..Len(seq) : (seq[i] = seq[j]) => (i = j)

(***************************************************************************)
(* C18: idempotent registration.  A Register, AddArg or AddFlag call whose *)
(* normalized name is already registered returns the stored object of that *)
(* name with the second return value true and creates no entry; a call     *)
(* whose normalized name is not registered returns false and creates the   *)
(* entry of that name; the ordered argument list never holds a name twice. *)
(***************************************************************************)
IdempotentRegistration ==
    [][ /\ (last'.op = "Register") =>
              /\ last'.exist = Has(registry, last'.key)
              /\ DOMAIN registry' = DOMAIN registry \cup {last'.key}
        /\ (last'.op = "AddArg") =>
              LET n == NormalArgName(last'.in.name)
              IN  /\ last'.key = n
                  /\ last'.exist = Has(registry[last'.cmd].Args, n)
                  /\ DOMAIN registry'[last'.cmd].Args
                         = DOMAIN registry[last'.cmd].Args \cup {n}
                  /\ registry'[last'.cmd].ArgNames
                         = IF last'.exist
                           THEN registry[last'.cmd].ArgNames
                           ELSE Append(registry[last'.cmd].ArgNames, n)
                  /\ NoDuplicates(registry'[last'.cmd].ArgNames)
        /\ (last'.op = "AddFlag") =>
              LET n == NormalFlagName(last'.in.name)
              IN  /\ last'.key = n
                  /\ last'.exist = Has(registry[last'.cmd].Flags, n)
                  /\ DOMAIN registry'[last'.cmd].Flags
                         = DOMAIN registry[last'.cmd].Flags \cup {n}
      ]_vars

(***************************************************************************)
(* C19: re-registration leaves the existing definition unchanged.  An      *)
(* AddArg, AddArgWithValid, AddFlag or AddFlagWithValid call that reports  *)
(* its name as already registered changes no field of the definition       *)
(* stored under that name and no entry of the short-alias table.           *)
(***************************************************************************)
ReRegistrationUnchanged ==
    [][ /\ (ArgCall(last') /\ last'.exist) =>
              /\ registry'[last'.cmd].Args[last'.key]
                     = registry[last'.cmd].Args[last'.key]
              /\ registry'[last'.cmd].flagsShort = registry[last'.cmd].flagsShort
        /\ (FlagCall(last') /\ last'.exist) =>
              /\ registry'[last'.cmd].Flags[last'.key]
                     = registry[last'.cmd].Flags[last'.key]
              /\ registry'[last'.cmd].flagsShort = registry[last'.cmd].flagsShort
      ]_vars

(***************************************************************************)
(* C20: AddFlag with a name prefixed no- always registers an inverted      *)
(* flag.  Whatever isBool and defaultValue are, the definition the call    *)
(* creates has IsInverted and IsBoolean true, the default value "true" and *)
(* an empty short name, and no short-alias entry leads to it.              *)
(***************************************************************************)
NoPrefixAlwaysInverted ==
    (/\ last.op = "AddFlag"
     /\ HasPrefix(last.in.name, <<"n", "o", "-">>)
     /\ ~last.exist) =>
        LET config == registry[last.cmd]
            flag   == config.Flags[last.key]
        IN  /\ flag.IsInverted
            /\ flag.IsBoolean
            /\ flag.DefaultValue = <<"t", "r", "u", "e">>
            /\ flag.ShortName = <<>>
            /\ \A s \in DOMAIN config.flagsShort :
                   config.flagsShort[s] # last.key

(***************************************************************************)
(* a third host program: flags only, on the root command (a boolean flag   *)
(* given a default, two flags asking for the same short name, inverted     *)
(* flags given a short name and a default, an inverted flag whose name     *)
(* starts with a letter of the prefix)                                     *)
(***************************************************************************)

\* longest token list handed to Parse by this host
MaxFlagArgv == 2

\* (name, shortName, isBool, defaultValue) tuples handed to AddFlag
FlagHostFlagInputs ==
    {[name |-> <<"b">>, shortName |-> <<"b">>, isBool |-> TRUE,
      defaultValue |-> <<"d">>],
     [name |-> <<"f">>, shortName |-> <<"b", "f">>, isBool |-> FALSE,
      defaultValue |-> <<"d">>],
     [name |-> <<"n", "o", "-", "c">>, shortName |-> <<"c">>, isBool |-> TRUE,
      defaultValue |-> <<"d">>],
     [name |-> <<"n", "o", "-", "o", "p">>, shortName |-> <<>>, isBool |-> TRUE,
      defaultValue |-> <<>>]}

\* (name, shortName, isBool, defaultValue, validVals) handed to AddFlagWithValid
FlagHostFlagValidInputs ==
    {[name |-> <<"f">>, shortName |-> <<"b", "f">>, isBool |-> FALSE,
      defaultValue |-> <<"d">>, validVals |-> <<<<"x">>>>]}

\* command-line tokens of this host
FlagHostTokens ==
    {<<"x">>,
     <<"-", "b">>, <<"-", "c">>,
     <<"-", "-", "b">>, <<"-", "-", "f">>,
     <<"-", "-", "n", "o", "-", "c">>,
     <<"-", "-", "n", "o", "-", "o", "p">>}

\* the token lists handed to Parse by this host
FlagHostTokenLists == UNION {[1..n -> FlagHostTokens] : n \in 0..MaxFlagArgv}

FlagHostRegisterStep ==
    /\ Building
    /\ UNCHANGED calls
    /\ LET r == Register(registry, Root)
       IN  /\ registry' = r.reg
           /\ last' = [op |-> "Register", cmd |-> r.key, key |-> r.key,
                       exist |-> r.exist]

FlagHostAddFlagStep ==
    /\ Building
    /\ UNCHANGED calls
    /\ Has(registry, Root)
    /\ \E in \in FlagHostFlagInputs :
        LET r == AddFlag(registry, Root, in.name, in.shortName, in.isBool,
                         in.defaultValue)
        IN  /\ registry' = r.reg
            /\ last' = [op |-> "AddFlag", cmd |-> Root, key |-> r.key,
                        exist |-> r.exist, in |-> in]

FlagHostAddFlagWithValidStep ==
    /\ Building
    /\ UNCHANGED calls
    /\ Has(registry, Root)
    /\ \E in \in FlagHostFlagValidInputs :
        LET r == AddFlagWithValid(registry, Root, in.name, in.shortName,
                                  in.isBool, in.defaultValue, in.validVals)
        IN  /\ registry' = r.reg
            /\ last' = [op |-> "AddFlagWithValid", cmd |-> Root, key |-> r.key,
                        exist |-> r.exist, in |-> in]

FlagHostParseStep ==
    /\ Built
    /\ UNCHANGED calls
    /\ \E values \in FlagHostTokenLists :
        /\ last' = [op |-> "Parse", values |-> values] @@ Parse(registry, values)
        /\ UNCHANGED registry

FlagHostNext ==
    \/ FlagHostRegisterStep
    \/ FlagHostAddFlagStep
    \/ FlagHostAddFlagWithValidStep
    \/ FlagHostParseStep

FlagSpec == Init /\ [][FlagHostNext]_vars

\* the literal prefix of an inverted flag name
NoDash == <<"n", "o", "-">>

\* the AddFlag call registers an inverted flag no-N with N not empty
RegistersInverted(l) ==
    /\ l.op = "AddFlag"
    /\ l.in.isBool
    /\ HasPrefix(l.in.name, NoDash)
    /\ Len(l.in.name) > 3

(***************************************************************************)
(* C21: registering the inverted flag no-N, N not empty, stores the        *)
(* definition under exactly N, the given name without its first three      *)
(* characters, and every inverted flag that a successful Parse reports is  *)
(* reported under the key N of a name no-N given to AddFlag.               *)
(***************************************************************************)
InvertedFlagKey ==
    /\ RegistersInverted(last) =>
          LET N == SubSeq(last.in.name, 4, Len(last.in.name))
          IN  /\ last.key = N
              /\ Has(registry[last.cmd].Flags, N)
    /\ Succeeded =>
          \A k \in DOMAIN last.result.Flags :
              Selected.Flags[k].IsInverted =>
                  \E in \in FlagHostFlagInputs :
                      in.isBool /\ in.name = NoDash \o k

AliasHits ==
    {k \in 1..Len(last.stream) :
        /\ Len(last.stream[k]) = 2
        /\ FlagShaped(last.stream[k])
        /\ Has(Selected.flagsShort, <<last.stream[k][2]>>)}

(***************************************************************************)
(* C23: after any sequence of registration calls, every value in the       *)
(* short-alias table of a command is the long name of a flag in the flag   *)
(* table of the same command, so the definition that Parse fetches for a   *)
(* short token found in the alias table is never missing.                  *)
(***************************************************************************)
AliasesResolve ==
    /\ \A cmd \in DOMAIN registry : \A s \in DOMAIN registry[cmd].flagsShort :
           Has(registry[cmd].Flags, registry[cmd].flagsShort[s])
    /\ Resolving =>
           \A k \in AliasHits :
               LET l == lookupFlag(Selected, last.stream[k])
               IN  l.found /\ Has(Selected.Flags, l.key)

\* Parse succeeded on a stream with a short token found in the alias table
AliasesResolveWitness ==
    /\ Succeeded
    /\ AliasHits # {}

(***************************************************************************)
(* C24: after any sequence of AddFlag calls on a command, the short-alias  *)
(* table maps the short name s to the long name n if and only if the       *)
(* stored definition of n has the short name s.                            *)
(***************************************************************************)
AliasTableInSync ==
    \A cmd \in DOMAIN registry :
        LET config == registry[cmd]
        IN  /\ \A s \in DOMAIN config.flagsShort :
                   /\ Has(config.Flags, config.flagsShort[s])
                   /\ config.Flags[config.flagsShort[s]].ShortName = s
            /\ \A n \in DOMAIN config.Flags :
                   config.Flags[n].ShortName # <<>> =>
                       /\ Has(config.flagsShort, config.Flags[n].ShortName)
                       /\ config.flagsShort[config.Flags[n].ShortName] = n

(***************************************************************************)
(* C25: after any sequence of AddArg / AddArgWithValid calls on a command, *)
(* at most one declared argument is variadic, and a variadic argument is   *)
(* the last entry of the command's argument order.                         *)
(***************************************************************************)
VariadicIsLast ==
    \A cmd \in DOMAIN registry :
        LET config == registry[cmd]
            variadicAt == {i \in 1..Len(config.ArgNames) :
                              config.Args[config.ArgNames[i]].IsVariadic}
        IN  /\ Cardinality(variadicAt) <= 1
            /\ \A i \in variadicAt : i = Len(config.ArgNames)

(***************************************************************************)
(* Registry.Parse step by step: the statements of one call, split where    *)
(* another call on the same registry can run in between.  Each operator    *)
(* yields the registry (reg) and the local variables of all calls (calls)  *)
(* after call i has made the step.                                         *)
(***************************************************************************)

\* the local variables of a call that has returned an error before its
\* store was allocated
ReturnedEarly(values, sel, stream, err) ==
    [values |-> values, pc |-> "done", commandName |-> sel.commandName,
     valuesToProcess |-> stream, store |-> NilParsed, result |-> NilParsed,
     err |-> err]

\* command selection, formatting, the invalid-flag-structure loop, the
\* command lookup and the allocation of the store
parseSelect(reg, cs, i, values) ==
    LET sel    == selectCommand(values, reg)
        stream == formatCommandValues(sel.valuesToProcess)
        bad    == unsupportedFlags(stream)
        c      == IF Len(bad) > 0
                  THEN ReturnedEarly(values, sel, stream,
                                     ErrorUnsupportedFlag(bad[1]))
                  ELSE IF ~Has(reg, sel.commandName)
                  THEN ReturnedEarly(values, sel, stream,
                                     ErrorUnknownCommand(sel.commandName))
                  ELSE [values |-> values, pc |-> "loop",
                        commandName |-> sel.commandName,
                        valuesToProcess |-> stream,
                        store |-> CommandParsed(reg[sel.commandName].Name,
                                                EmptyMap, EmptyMap),
                        result |-> NilParsed, err |-> Nil]
    IN  [reg |-> reg, calls |-> (i :> c) @@ cs]

\* the local variables of call i after one iteration of its resolver loop
iteration(reg, c) ==
    LET commandConfig == reg[c.commandName]
        nv == nextValue(c.valuesToProcess)
        r  == IF isFlag(nv.v)
              THEN processFlag(commandConfig, nv.v, nv.newSlice, c.store)
              ELSE [valuesToProcess |-> nv.newSlice]
                       @@ processArg(commandConfig, nv.v, c.store, 1)
    IN  IF Len(nv.v) = 0
        THEN [c EXCEPT !.valuesToProcess = nv.newSlice, !.pc = "defaults"]
        ELSE IF r.err # Nil
        THEN [c EXCEPT !.valuesToProcess = r.valuesToProcess, !.pc = "done",
                       !.err = r.err]
        ELSE [c EXCEPT !.valuesToProcess = r.valuesToProcess,
                       !.store = r.store]

\* one iteration with the Arg object of the store taken from the schema:
\* the values go into the ArgCommand of the registry
parseLoop_SchemaArg(reg, cs, i) ==
    LET c == iteration(reg, cs[i])
    IN  [reg   |-> IF c.store.nil THEN reg
                   ELSE [reg EXCEPT ![c.commandName].Args =
                           [k \in DOMAIN @ |->
                              IF Has(c.store.Args, k)
                              THEN [@[k] EXCEPT !.Value = c.store.Args[k].Value]
                              ELSE @[k]]],
         calls |-> [cs EXCEPT ![i] = c]]

\* one iteration with a single store for all the calls in progress
parseLoop_SharedStore(reg, cs, i) ==
    LET c == iteration(reg, cs[i])
    IN  [reg   |-> reg,
         calls |-> [j \in DOMAIN cs |->
                      IF j = i THEN c
                      ELSE IF cs[j].pc \in {"loop", "defaults"}
                      THEN [cs[j] EXCEPT !.store = c.store]
                      ELSE cs[j]]]

\* one iteration of the resolver loop of call i
parseLoop(reg, cs, i) ==
    [reg |-> reg, calls |-> [cs EXCEPT ![i] = iteration(reg, cs[i])]]

\* the two defaulting loops and the return of call i
parseReturn(reg, cs, i) ==
    [reg   |-> reg,
     calls |-> [cs EXCEPT ![i].result = storeDefaults(reg[cs[i].commandName],
                                                      cs[i].store),
                          ![i].pc = "done"]]

(***************************************************************************)
(* a fourth host program: it builds a small registry and then parses       *)
(* several argument vectors on it side by side                             *)
(***************************************************************************)

\* longest token list handed to a Parse call by this host
MaxCallArgv == 2

\* the Parse calls of this host, numbered in the order they start
Callers == {1, 2}

\* (name, defaultValue) pairs handed to AddArg
CallHostArgInputs == {[name |-> <<"a">>, defaultValue |-> <<"m">>]}

\* (name, shortName, isBool, defaultValue) tuples handed to AddFlag
CallHostFlagInputs ==
    {[name |-> <<"b">>, shortName |-> <<"b">>, isBool |-> TRUE,
      defaultValue |-> <<>>],
     [name |-> <<"f">>, shortName |-> <<"f">>, isBool |-> FALSE,
      defaultValue |-> <<"d">>]}

\* command-line tokens of this host
CallHostTokens == {<<"x">>, <<"-", "b">>, <<"-", "f">>}

\* the token lists handed to Parse by this host
CallHostTokenLists == UNION {[1..n -> CallHostTokens] : n \in 0..MaxCallArgv}

CallHostRegisterStep ==
    /\ Building
    /\ UNCHANGED calls
    /\ LET r == Register(registry, Root)
       IN  /\ registry' = r.reg
           /\ last' = [op |-> "Register", cmd |-> r.key, key |-> r.key,
                       exist |-> r.exist]

CallHostAddArgStep ==
    /\ Building
    /\ UNCHANGED calls
    /\ Has(registry, Root)
    /\ \E in \in CallHostArgInputs :
        LET r == AddArg(registry, Root, in.name, in.defaultValue)
        IN  /\ registry' = r.reg
            /\ last' = [op |-> "AddArg", cmd |-> Root, key |-> r.key,
                        exist |-> r.exist]

CallHostAddFlagStep ==
    /\ Building
    /\ UNCHANGED calls
    /\ Has(registry, Root)
    /\ \E in \in CallHostFlagInputs :
        LET r == AddFlag(registry, Root, in.name, in.shortName, in.isBool,
                         in.defaultValue)
        IN  /\ registry' = r.reg
            /\ last' = [op |-> "AddFlag", cmd |-> Root, key |-> r.key,
                        exist |-> r.exist]

\* a Parse call starts, once the registry is built, and runs up to its
\* resolver loop
ParseSelectStep ==
    /\ Built \/ IsParse
    /\ Cardinality(DOMAIN calls) < Cardinality(Callers)
    /\ \E values \in CallHostTokenLists :
        LET r == parseSelect(registry, calls, Cardinality(DOMAIN calls) + 1,
                             values)
        IN  /\ registry' = r.reg
            /\ calls' = r.calls
            /\ last' = [op |-> "Parse"]

ParseLoopStep ==
    \E i \in DOMAIN calls :
        /\ calls[i].pc = "loop"
        /\ LET r == parseLoop(registry, calls, i)
           IN  /\ registry' = r.reg
               /\ calls' = r.calls
        /\ UNCHANGED last

ParseReturnStep ==
    \E i \in DOMAIN calls :
        /\ calls[i].pc = "defaults"
        /\ LET r == parseReturn(registry, calls, i)
           IN  /\ registry' = r.reg
               /\ calls' = r.calls
        /\ UNCHANGED last

CallHostNext ==
    \/ CallHostRegisterStep
    \/ CallHostAddArgStep
    \/ CallHostAddFlagStep
    \/ ParseSelectStep
    \/ ParseLoopStep
    \/ ParseReturnStep

ConcurrentSpec == Init /\ [][CallHostNext]_vars

\* call i has returned / has returned a result and no error
Returned(i) == i \in DOMAIN calls /\ calls[i].pc = "done"
ReturnedResult(i) == Returned(i) /\ calls[i].err = Nil /\ ~calls[i].result.nil

ConcurrentParseSafe ==
    /\ [](\A i \in DOMAIN calls :
             Returned(i) =>
                 LET alone == Parse(registry, calls[i].values)
                 IN  /\ calls[i].result = alone.result
                     /\ calls[i].err = alone.err)
    /\ [][ \A i, j \in DOMAIN calls :
             (calls'[i] # calls[i] /\ calls'[j] # calls[j]) => (i = j) ]_vars

\* the second call has returned a result while the first call, started
\* before it on other tokens, is inside its resolver loop with a flag set
ConcurrentParseSafeWitness ==
    /\ DOMAIN calls = Callers
    /\ ReturnedResult(2)
    /\ calls[1].pc = "loop"
    /\ calls[1].values # calls[2].values
    /\ DOMAIN calls[1].store.Flags # {}
    /\ DOMAIN calls[2].result.Flags # DOMAIN calls[1].store.Flags

(***************************************************************************)
(* vocabulary of the loop properties                                       *)
(***************************************************************************)

\* the two return values of Parse
Outcome(p) == [result |-> p.result, err |-> p.err]

\* the store when the resolver loop of the last call ended
FinalStore ==
    resolve(Selected, last.stream,
            CommandParsed(Selected.Name, EmptyMap, EmptyMap)).store

\* the declared arguments that the last call left without a value
UnsetArgs ==
    {k \in DOMAIN Selected.Args :
        ~Has(FinalStore.Args, k) \/ FinalStore.Args[k].Value = <<>>}

\* the value a boolean flag token gives its flag
BooleanValue(config, t) ==
    IF FlagOf(config, t).IsInverted THEN <<"f", "a", "l", "s", "e">>
                                    ELSE <<"t", "r", "u", "e">>

\* a token without the assignment character
NoAssign(t) == \A i \in 1..Len(t) : t[i] # "="

\* the stream of the last call ends with a flag that takes a value
EndsWithValueFlag ==
    /\ last.stream # <<>>
    /\ FlagShaped(last.stream[Len(last.stream)])
    /\ TakesValue(Selected, last.stream[Len(last.stream)], <<<<"x">>>>)

\* appended to the token list of the last call, the token t has something
\* to change: a resolvable boolean flag whose flag does not hold the value
\* that t gives it, or a positional token, other than their defaults, when
\* an argument is still unset
Changes(t) ==
    \/ /\ FlagShaped(t) /\ ~Malformed(t) /\ NoAssign(t)
       /\ Resolvable(Selected, t)
       /\ FlagOf(Selected, t).IsBoolean
       /\ last.result.Flags[FlagOf(Selected, t).Name].Value
              # BooleanValue(Selected, t)
    \/ /\ ~FlagShaped(t) /\ t # <<>>
       /\ ~EndsWithValueFlag
       /\ UnsetArgs # {}
       /\ \A k \in UnsetArgs : Selected.Args[k].DefaultValue # t

(***************************************************************************)
(* C28: the resolver loop ends only when the token stream is exhausted.    *)
(* On a call that returns no error every token of the stream has been      *)
(* processed, so appending a token that resolves to a flag or fills an     *)
(* unset argument gives another outcome than the list without it.          *)
(***************************************************************************)
LoopEndsAtExhaustion ==
    Succeeded =>
        \A t \in SchemaTokens :
            Changes(t) =>
                Outcome(Parse(registry, Append(last.values, t))) # Outcome(last)

\* the greatest element of a non-empty set of positions
Greatest(S) == CHOOSE k \in S : \A j \in S : j <= k

\* the positions of the stream where the walk of the last call finds a
\* token of the flag F
OccurrencesOf(F) ==
    {k \in 1..Len(last.stream) :
        /\ Walked(k)
        /\ FlagShaped(last.stream[k])
        /\ Resolvable(Selected, last.stream[k])
        /\ FlagOf(Selected, last.stream[k]).Name = F}

\* the occurrences of the non-boolean flag F that consume a value: the next
\* token is there, not empty and not flag-shaped
ConsumingOf(F) ==
    {k \in OccurrencesOf(F) :
        TakesValue(Selected, last.stream[k], SubSeq(last.stream, k + 1,
                                                    Len(last.stream)))}

(***************************************************************************)
(* C29: when a non-boolean flag occurs several times in one token list,    *)
(* the result holds the value consumed by its last occurrence that         *)
(* consumed a value; a later occurrence that consumes nothing does not put *)
(* the flag back to its default.                                           *)
(***************************************************************************)
LastConsumedValueWins ==
    Succeeded =>
        \A F \in DOMAIN Selected.Flags :
            LET consuming == ConsumingOf(F)
            IN  (~Selected.Flags[F].IsBoolean /\ consuming # {}) =>
                    last.result.Flags[F].Value
                        = last.stream[Greatest(consuming) + 1]

\* a flag with a default consumed a value other than the default, and a
\* later occurrence of it at the end of the list consumed nothing
LastConsumedValueWinsWitness ==
    /\ Succeeded
    /\ \E F \in DOMAIN Selected.Flags :
          /\ ~Selected.Flags[F].IsBoolean
          /\ ConsumingOf(F) # {}
          /\ Len(last.stream) \in OccurrencesOf(F)
          /\ Selected.Flags[F].DefaultValue # <<>>
          /\ last.result.Flags[F].Value # Selected.Flags[F].DefaultValue

\* the error with which the walk of the first k tokens of the stream ends
PrefixErr(k) ==
    resolve(Selected, SubSeq(last.stream, 1, k),
            CommandParsed(Selected.Name, EmptyMap, EmptyMap)).err

\* the positions at which an error has been raised: the walk of the tokens
\* up to there ends with an error
RaisedBy == {k \in 1..Len(last.stream) : PrefixErr(k) # Nil}

(***************************************************************************)
(* C30: error precedence inside the resolver loop.  When the stream has no *)
(* malformed flag and the command is registered, Parse returns the error,  *)
(* ErrorUnknownFlag or ErrorUnsupportedValue, raised by the earliest token *)
(* in stream order that raises one, whatever tokens follow it, and no      *)
(* error when no token raises one.                                         *)
(***************************************************************************)
ErrorPrecedence ==
    Resolving =>
        LET raised == RaisedBy
        IN  IF raised = {}
            THEN last.err = Nil
            ELSE /\ last.err = PrefixErr(Least(raised))
                 /\ last.err.type
                       \in {"ErrorUnknownFlag", "ErrorUnsupportedValue"}
                 /\ last.result.nil

\* the first token raised ErrorUnsupportedValue and the token after it is a
\* flag that the command does not have
ErrorPrecedenceWitness ==
    /\ Resolving
    /\ Len(last.stream) >= 2
    /\ RaisedBy # {}
    /\ Least(RaisedBy) = 1
    /\ last.err.type = "ErrorUnsupportedValue"
    /\ FlagShaped(last.stream[2])
    /\ Unresolvable(Selected, last.stream[2])

====
